---------------------------- MODULE Spec2Model ----------------------------
(***************************************************************************)
(* Backtest simulation core of the repository: the three stateful intraday *)
(* signal generators (opening_momentum_strategy.py,                        *)
(* intraday_mean_reversion_strategy.py, momentum_breakout_strategy.py),    *)
(* the order simulator, cost calculator, position ledger, PnL tracker and  *)
(* equity curve, driven by run_backtest of main.py.                        *)
(*                                                                         *)
(* Number representation.  The code computes in floats; the model is exact *)
(* integer arithmetic.  Bar prices (Close, High, Low) and volumes are      *)
(* whole numbers.  Every monetary amount (bid, ask, execution price,       *)
(* slippage, commission, cash, PnL, equity) is the float times MoneyScale, *)
(* and the rates of the configuration are fractions [num, den] chosen so   *)
(* that every product the code forms is a whole number of money units.     *)
(* The average cost, a quotient, is kept as a reduced fraction of money    *)
(* units.                                                                  *)
(***************************************************************************)
EXTENDS Integers, Sequences, FiniteSets, TLC

(***************************************************************************)
(* Bounds of the model.                                                    *)
(***************************************************************************)
MaxBars == 6    \* bars in the whole Bar Series
MaxDays == 2    \* sessions (calendar dates) in the Bar Series

(***************************************************************************)
(* Arithmetic helpers.                                                     *)
(***************************************************************************)
\* An optional value: None is the empty tuple, a present value x is Some(x)
\* and is read back as the first element.
None == << >>
Some(x) == << x >>

Abs(x) == IF x < 0 THEN -x ELSE x

\* Python int(a / b) for b > 0: truncation toward zero.
TruncDiv(a, b) == IF a >= 0 THEN a \div b ELSE -((-a) \div b)

RECURSIVE GCD(_, _)
GCD(a, b) == IF b = 0 THEN a ELSE GCD(b, a % b)

\* A fraction of money units, reduced, with a positive denominator.
Frac(n, d) ==
    LET g == GCD(Abs(n), Abs(d))
        s == IF d < 0 THEN -1 ELSE 1
    IN  IF n = 0 THEN [num |-> 0, den |-> 1]
        ELSE [num |-> s * (n \div g), den |-> s * (d \div g)]

FracZero == [num |-> 0, den |-> 1]

\* a1 * a2 < b1 * b2 for naturals, without forming the products.
RECURSIVE FracLess(_, _, _, _)
FracLess(a, b, c, d) ==
    \* a / b < c / d, with b > 0 and d > 0, a >= 0 and c >= 0
    LET q1 == a \div b
        q2 == c \div d
        r1 == a % b
        r2 == c % d
    IN  IF q1 # q2 THEN q1 < q2
        ELSE IF r2 = 0 THEN FALSE
        ELSE IF r1 = 0 THEN TRUE
        ELSE FracLess(d, r2, b, r1)

ProdLess(a1, a2, b1, b2) ==
    IF b1 = 0 \/ b2 = 0 THEN FALSE
    ELSE IF a1 = 0 \/ a2 = 0 THEN TRUE
    ELSE FracLess(a1, b2, b1, a2)

ProdLeq(a1, a2, b1, b2) == ~ProdLess(b1, b2, a1, a2)

SeqSum(s) ==
    LET RECURSIVE Go(_)
        Go(i) == IF i = 0 THEN 0 ELSE s[i] + Go(i - 1)
    IN  Go(Len(s))

Last(s) == s[Len(s)]


(***************************************************************************)
(* Bar Series.  A timestamp is a minute count: date * MinutesPerDay +      *)
(* minute of the day (UTC, as in the data files).  The bars of a session   *)
(* sit on consecutive slots of TimeGrid, from a start slot chosen per      *)
(* session; the grid holds minutes inside and outside the excluded windows *)
(* of the time filters.                                                    *)
(***************************************************************************)
MinutesPerDay == 24 * 60

TimeGrid == << 13 * 60 + 30, 14 * 60 + 1, 15 * 60, 16 * 60,
               20 * 60 + 30, 20 * 60 + 45, 20 * 60 + 50 >>

Timestamp(date, slot) == date * MinutesPerDay + TimeGrid[slot]

DateOf(ts) == ts \div MinutesPerDay        \* df.index.date
HourOf(ts) == (ts % MinutesPerDay) \div 60 \* df.index.hour
MinuteOf(ts) == ts % 60                    \* df.index.minute

\* Money units per price unit: the loader's spread of 1/10000, slippage
\* rates down to 1/4 and a commission rate of 1/8 keep every amount whole
\* for even closes.
MoneyScale == 10000 * 16

\* csv_data_loader.py:24
spread == [num |-> 1, den |-> 10000]

Closes == {2, 16}
Volumes == {1, 4}

\* The bars the model feeds: a close on a two-level grid, a high and a low
\* that either equal the close or reach beyond it, a volume.
BarInputs ==
    UNION { { [Close |-> c, High |-> h, Low |-> l, Volume |-> v] :
                h \in {c, 2 * c}, l \in {c, c \div 2}, v \in Volumes } :
            c \in Closes }

\* The row of the 1-minute table for a bar, as load_1m_data builds it:
\* bid = Close * (1 - spread), ask = Close * (1 + spread).
Row(ts, bar) ==
    [ts |-> ts, Close |-> bar.Close,
     bid |-> bar.Close * (MoneyScale \div spread.den) * (spread.den - spread.num),
     ask |-> bar.Close * (MoneyScale \div spread.den) * (spread.den + spread.num)]

(***************************************************************************)
(* Strategy parameters (constructor arguments).  The window lengths are    *)
(* scaled down so that a session of a few bars exercises them.             *)
(***************************************************************************)
opening_range_minutes == 2
period == 2
rsi_period == 2
lookback_period == 1
max_positions_per_day == 1

volume_window == 20

Strategies == {"opening_momentum", "mean_reversion", "momentum_breakout"}

OpeningParams ==
    [volume_threshold |-> [num |-> 3, den |-> 2],
     breakout_threshold |-> [num |-> 2, den |-> 1000],
     profit_target_pct |-> [num |-> 10, den |-> 1000],
     stop_loss_pct |-> [num |-> 5, den |-> 1000]]

\* main.py:64-69.  With two standard deviations and a window this short a
\* close reaches a band only when the window's closes are equal (STD = 0).
MeanReversionParams ==
    [std_multiplier |-> [num |-> 2, den |-> 1],
     rsi_oversold |-> 30,
     rsi_overbought |-> 70,
     profit_target_pct |-> [num |-> 10, den |-> 1000],
     stop_loss_pct |-> [num |-> 5, den |-> 1000]]

MomentumParams ==
    [momentum_threshold |-> [num |-> 3, den |-> 1000],
     volume_multiplier |-> [num |-> 3, den |-> 2],
     profit_target_pct |-> [num |-> 8, den |-> 1000],
     stop_loss_pct |-> [num |-> 4, den |-> 1000]]

\* x <= e * (1 - r), x >= e * (1 + r), x > e * (1 + r) for a rate r = num/den
LeqBelow(x, e, r) == x * r.den <= e * (r.den - r.num)
GeqAbove(x, e, r) == x * r.den >= e * (r.den + r.num)
GtAbove(x, e, r) == x * r.den > e * (r.den + r.num)

\* Generator state: the instance fields of a strategy object.
Flat == [in_position |-> FALSE, entry_price |-> 0, position_type |-> 0,
         positions_today |-> 0]

\* Volume > rolling mean of the last volume_window volumes (this bar included,
\* min_periods = 1) times the multiplier; vsum is the sum over that window
\* and n the number of bars in it.
VolumeSurge(volume, vsum, n, mult) ==
    volume * n * mult.den > vsum * mult.num

(***************************************************************************)
(* Signal generators: the body of the per-bar loop of calculate_signals.   *)
(* st is the generator state (in_position, entry_price, position_type,     *)
(* positions_today); the result is the Signal written at the bar and the   *)
(* state after it.                                                         *)
(***************************************************************************)
Hold(st) == [signal |-> 0, st |-> st]

\* Leaving a position: the three assignments of every exit branch.
Exit(st, sig) ==
    [signal |-> sig,
     st |-> [st EXCEPT !.in_position = FALSE, !.entry_price = 0,
                       !.position_type = 0]]

\* opening_momentum_strategy.py: the opening strategy keeps no position_type.
OpeningExit(st) ==
    [signal |-> -1,
     st |-> [st EXCEPT !.in_position = FALSE, !.entry_price = 0]]

OpeningBar(st, bar, vsum, n, opening_high, opening_low) ==
    LET P == OpeningParams
        volume_surge == VolumeSurge(bar.Volume, vsum, n, P.volume_threshold)
        price_breakout == GtAbove(bar.Close, opening_high, P.breakout_threshold)
    IN  IF st.in_position
        THEN IF LeqBelow(bar.Low, st.entry_price, P.stop_loss_pct)
                THEN OpeningExit(st)
             ELSE IF GeqAbove(bar.High, st.entry_price, P.profit_target_pct)
                THEN OpeningExit(st)
             ELSE IF bar.Low < opening_low
                THEN OpeningExit(st)
             ELSE Hold(st)
        ELSE IF volume_surge /\ price_breakout
                THEN [signal |-> 1,
                      st |-> [st EXCEPT !.in_position = TRUE,
                                        !.entry_price = bar.Close]]
             ELSE Hold(st)

\* Variant: no minute is excluded.
MomentumTimeFilter_Open(ts) == TRUE

\* momentum_breakout_strategy.py, lines 63-70
MomentumTimeFilter(ts) ==
    /\ ~(HourOf(ts) = 13 /\ MinuteOf(ts) >= 30 /\ MinuteOf(ts) <= 44)
    /\ ~(HourOf(ts) = 20 /\ MinuteOf(ts) >= 45)

\* closes: the Close column up to and including this bar.
\* Momentum = (Close - Price_Lookback) / Price_Lookback, NaN on the first
\* lookback_period bars of the series.
MomentumIsNaN(closes) == Len(closes) <= lookback_period

MomentumAbove(closes, r) ==
    LET c == closes[Len(closes)]
        pl == closes[Len(closes) - lookback_period]
    IN  (c - pl) * r.den > r.num * pl

MomentumBelowNeg(closes, r) ==
    LET c == closes[Len(closes)]
        pl == closes[Len(closes) - lookback_period]
    IN  (c - pl) * r.den < (0 - r.num) * pl

MomentumBar(st, bar, ts, closes, vsum, n) ==
    LET P == MomentumParams
        thr == P.momentum_threshold
        volume_surge == VolumeSurge(bar.Volume, vsum, n, P.volume_multiplier)
    IN  IF MomentumIsNaN(closes) \/ ~MomentumTimeFilter(ts)
        THEN Hold(st)
        ELSE IF st.in_position
        THEN IF st.position_type = 1
             THEN IF LeqBelow(bar.Low, st.entry_price, P.stop_loss_pct)
                     THEN Exit(st, -1)
                  ELSE IF GeqAbove(bar.High, st.entry_price, P.profit_target_pct)
                     THEN Exit(st, -1)
                  ELSE IF MomentumBelowNeg(closes, thr)
                     THEN Exit(st, -1)
                  ELSE Hold(st)
             ELSE IF st.position_type = -1
             THEN IF GeqAbove(bar.High, st.entry_price, P.stop_loss_pct)
                     THEN Exit(st, 1)
                  ELSE IF LeqBelow(bar.Low, st.entry_price, P.profit_target_pct)
                     THEN Exit(st, 1)
                  ELSE IF MomentumAbove(closes, thr)
                     THEN Exit(st, 1)
                  ELSE Hold(st)
             ELSE Hold(st)
        ELSE IF MomentumAbove(closes, thr) /\ volume_surge
             THEN [signal |-> 1,
                   st |-> [st EXCEPT !.in_position = TRUE,
                                     !.entry_price = bar.Close,
                                     !.position_type = 1]]
        ELSE IF MomentumBelowNeg(closes, thr) /\ volume_surge
             THEN [signal |-> -1,
                   st |-> [st EXCEPT !.in_position = TRUE,
                                     !.entry_price = bar.Close,
                                     !.position_type = -1]]
        ELSE Hold(st)

(***************************************************************************)
(* intraday_mean_reversion_strategy.py.  With S1 and S2 the sums of the    *)
(* last `period` closes and of their squares and n = period:               *)
(*   MA = S1 / n,  STD^2 = V / (n (n - 1))  with  V = n S2 - S1^2          *)
(* (rolling().std() is the sample deviation).  A comparison against a band *)
(* MA +- k STD is decided on squares, exactly.                             *)
(***************************************************************************)
\* lines 73-81
MeanReversionTimeFilter(ts) ==
    /\ ~(HourOf(ts) = 13 /\ MinuteOf(ts) >= 30 /\ MinuteOf(ts) <= 59)
    /\ ~(HourOf(ts) = 14 /\ MinuteOf(ts) <= 0)
    /\ ~(HourOf(ts) = 20 /\ MinuteOf(ts) >= 30)

WindowSum(closes, w) ==
    LET RECURSIVE Go(_)
        Go(j) == IF j = 0 THEN 0
                 ELSE closes[Len(closes) - j + 1] + Go(j - 1)
    IN  Go(w)

WindowSumSq(closes, w) ==
    LET RECURSIVE Go(_)
        Go(j) == IF j = 0 THEN 0
                 ELSE closes[Len(closes) - j + 1] * closes[Len(closes) - j + 1]
                      + Go(j - 1)
    IN  Go(w)

\* delta = prices.diff(); the first delta is NaN and counts as 0 in both the
\* gain and the loss series.
Delta(closes, i) == IF i = 1 THEN 0 ELSE closes[i] - closes[i - 1]

\* Sum of the gains (up = TRUE) or losses over the last rsi_period deltas.
RsiSum(closes, up) ==
    LET RECURSIVE Go(_)
        Go(j) == IF j = 0 THEN 0
                 ELSE LET d == Delta(closes, Len(closes) - j + 1)
                      IN  (IF up THEN (IF d > 0 THEN d ELSE 0)
                                 ELSE (IF d < 0 THEN 0 - d ELSE 0))
                          + Go(j - 1)
    IN  Go(rsi_period)

MaIsNaN(closes) == Len(closes) < period
StdIsNaN(closes) == Len(closes) < period \/ period < 2
\* rs = gain / loss is 0/0 when no close moved inside the window
RsiIsNaN(closes) ==
    \/ Len(closes) < rsi_period
    \/ (RsiSum(closes, TRUE) = 0 /\ RsiSum(closes, FALSE) = 0)

\* RSI = 100 - 100 / (1 + rs) = 100 gain / (gain + loss)   (100 when loss = 0)
RsiLeq(closes, level) ==
    100 * RsiSum(closes, TRUE)
        <= level * (RsiSum(closes, TRUE) + RsiSum(closes, FALSE))
RsiGeq(closes, level) ==
    100 * RsiSum(closes, TRUE)
        >= level * (RsiSum(closes, TRUE) + RsiSum(closes, FALSE))

BandV(closes) ==
    period * WindowSumSq(closes, period)
        - WindowSum(closes, period) * WindowSum(closes, period)

\* k STD <= |Close - MA|
OutsideBand(closes, k) ==
    LET d == period * closes[Len(closes)] - WindowSum(closes, period)
    IN  ProdLeq(k.num * k.num * period, BandV(closes),
                k.den * k.den * (period - 1), d * d)

\* Close <= Lower,  Lower = MA - k STD
CloseLeqLower(closes, k) ==
    /\ period * closes[Len(closes)] <= WindowSum(closes, period)
    /\ OutsideBand(closes, k)

\* Close >= Upper,  Upper = MA + k STD
CloseGeqUpper(closes, k) ==
    /\ period * closes[Len(closes)] >= WindowSum(closes, period)
    /\ OutsideBand(closes, k)

\* Close > Lower * 0.995:  0.995 MA - Close < 0.995 k STD
NotTooDeep(closes, k) ==
    LET f == 199 * WindowSum(closes, period)
                - 200 * period * closes[Len(closes)]
    IN  \/ f < 0
        \/ ProdLess(f * f, k.den * k.den * (period - 1),
                    199 * 199 * k.num * k.num * period, BandV(closes))

\* Close < Upper * 1.005:  Close - 1.005 MA < 1.005 k STD
NotTooHigh(closes, k) ==
    LET f == 200 * period * closes[Len(closes)]
                - 201 * WindowSum(closes, period)
    IN  \/ f < 0
        \/ ProdLess(f * f, k.den * k.den * (period - 1),
                    201 * 201 * k.num * k.num * period, BandV(closes))

\* Close <= MA, Close >= MA
CloseLeqMA(closes) == period * closes[Len(closes)] <= WindowSum(closes, period)
CloseGeqMA(closes) == period * closes[Len(closes)] >= WindowSum(closes, period)

\* Variant: entries are counted but never refused.
MeanReversionBar_NoLimit(st, bar, ts, closes) ==
    LET P == MeanReversionParams
        k == P.std_multiplier
    IN  IF \/ MaIsNaN(closes) \/ RsiIsNaN(closes) \/ StdIsNaN(closes)
           \/ ~MeanReversionTimeFilter(ts)
        THEN Hold(st)
        ELSE IF st.in_position
        THEN IF st.position_type = 1
             THEN IF LeqBelow(bar.Low, st.entry_price, P.stop_loss_pct)
                     THEN Exit(st, -1)
                  ELSE IF GeqAbove(bar.High, st.entry_price, P.profit_target_pct)
                     THEN Exit(st, -1)
                  ELSE IF CloseLeqMA(closes)
                     THEN Exit(st, -1)
                  ELSE Hold(st)
             ELSE IF st.position_type = -1
             THEN IF GeqAbove(bar.High, st.entry_price, P.stop_loss_pct)
                     THEN Exit(st, 1)
                  ELSE IF LeqBelow(bar.Low, st.entry_price, P.profit_target_pct)
                     THEN Exit(st, 1)
                  ELSE IF CloseGeqMA(closes)
                     THEN Exit(st, 1)
                  ELSE Hold(st)
             ELSE Hold(st)
        ELSE IF st.positions_today >= 0
        THEN IF /\ CloseLeqLower(closes, k)
                /\ RsiLeq(closes, P.rsi_oversold)
                /\ NotTooDeep(closes, k)
             THEN [signal |-> 1,
                   st |-> [st EXCEPT !.in_position = TRUE,
                                     !.entry_price = bar.Close,
                                     !.position_type = 1,
                                     !.positions_today = @ + 1]]
             ELSE IF /\ CloseGeqUpper(closes, k)
                     /\ RsiGeq(closes, P.rsi_overbought)
                     /\ NotTooHigh(closes, k)
             THEN [signal |-> -1,
                   st |-> [st EXCEPT !.in_position = TRUE,
                                     !.entry_price = bar.Close,
                                     !.position_type = -1,
                                     !.positions_today = @ + 1]]
             ELSE Hold(st)
        ELSE Hold(st)

MeanReversionBar(st, bar, ts, closes) ==
    LET P == MeanReversionParams
        k == P.std_multiplier
    IN  IF \/ MaIsNaN(closes) \/ RsiIsNaN(closes) \/ StdIsNaN(closes)
           \/ ~MeanReversionTimeFilter(ts)
        THEN Hold(st)
        ELSE IF st.in_position
        THEN IF st.position_type = 1
             THEN IF LeqBelow(bar.Low, st.entry_price, P.stop_loss_pct)
                     THEN Exit(st, -1)
                  ELSE IF GeqAbove(bar.High, st.entry_price, P.profit_target_pct)
                     THEN Exit(st, -1)
                  ELSE IF CloseLeqMA(closes)
                     THEN Exit(st, -1)
                  ELSE Hold(st)
             ELSE IF st.position_type = -1
             THEN IF GeqAbove(bar.High, st.entry_price, P.stop_loss_pct)
                     THEN Exit(st, 1)
                  ELSE IF LeqBelow(bar.Low, st.entry_price, P.profit_target_pct)
                     THEN Exit(st, 1)
                  ELSE IF CloseGeqMA(closes)
                     THEN Exit(st, 1)
                  ELSE Hold(st)
             ELSE Hold(st)
        ELSE IF st.positions_today < max_positions_per_day
        THEN IF /\ CloseLeqLower(closes, k)
                /\ RsiLeq(closes, P.rsi_oversold)
                /\ NotTooDeep(closes, k)
             THEN [signal |-> 1,
                   st |-> [st EXCEPT !.in_position = TRUE,
                                     !.entry_price = bar.Close,
                                     !.position_type = 1,
                                     !.positions_today = @ + 1]]
             ELSE IF /\ CloseGeqUpper(closes, k)
                     /\ RsiGeq(closes, P.rsi_overbought)
                     /\ NotTooHigh(closes, k)
             THEN [signal |-> -1,
                   st |-> [st EXCEPT !.in_position = TRUE,
                                     !.entry_price = bar.Close,
                                     !.position_type = -1,
                                     !.positions_today = @ + 1]]
             ELSE Hold(st)
        ELSE Hold(st)

(***************************************************************************)
(* "Close any open positions at end of day": the block after the per-bar   *)
(* loop of each calculate_signals.  last is the Signal already written at  *)
(* the session's last bar.                                                 *)
(***************************************************************************)
ClosingSignal(strategy, st) ==
    IF strategy = "opening_momentum" THEN -1
    ELSE IF st.position_type = 1 THEN -1 ELSE 1

\* Variant: the state is reset only when the closing signal is written.
ForcedClose_ResetIfWritten(strategy, st, last) ==
    IF st.in_position /\ last = 0
    THEN [signal |-> ClosingSignal(strategy, st),
          st |-> [st EXCEPT !.in_position = FALSE, !.entry_price = 0,
                            !.position_type = 0]]
    ELSE [signal |-> last, st |-> st]

\* Variant: the closing signal is written but the state is not reset.
ForcedClose_NoReset(strategy, st, last) ==
    IF st.in_position
    THEN [signal |-> IF last = 0 THEN ClosingSignal(strategy, st) ELSE last,
          st |-> st]
    ELSE [signal |-> last, st |-> st]

ForcedClose(strategy, st, last) ==
    IF st.in_position
    THEN [signal |-> IF last = 0 THEN ClosingSignal(strategy, st) ELSE last,
          st |-> [st EXCEPT !.in_position = FALSE, !.entry_price = 0,
                            !.position_type = 0]]
    ELSE [signal |-> last, st |-> st]

\* The shortest session a generator processes; a shorter one is skipped.
MinSessionBars(strategy) ==
    IF strategy = "opening_momentum" THEN opening_range_minutes
    ELSE IF strategy = "mean_reversion"
         THEN (IF period >= rsi_period THEN period ELSE rsi_period)
    ELSE lookback_period + 5

(***************************************************************************)
(* State.                                                                  *)
(***************************************************************************)
VARIABLES
    pc,             \* position in run_backtest
    strategy_type,  \* run_backtest's strategy_type argument
    strategy,       \* the strategy object's fields
    df,             \* the 1-minute table: rows [ts, Close, bid, ask]
    Signal,         \* the Signal column of df_with_signals
    volume_sum,     \* sum of the Volume column (the rolling window's sum)
    opening_high,   \* calculate_signals locals of the opening strategy
    opening_low,
    day_no,         \* the date of the session being processed
    day_len,        \* len(day_indices)
    day_slot,       \* TimeGrid slot of the session's first bar
    day_pos,        \* bars of the session already visited
    config,         \* BacktestConfig: order, position and cost settings
    cash,           \* PositionManager
    shares,
    avg_cost,
    positions_history,
    trades,         \* PnLTracker
    realized_pnl,
    trade_count,
    equity_curve,   \* PerformanceAnalyzer
    next_signal,    \* index into signal_times of the next loop iteration
    entry_price,    \* run_backtest local
    executed_trades,
    order_result    \* run_backtest local: the last simulate_order result

gen_vars == << strategy_type, strategy, df, Signal, volume_sum, opening_high,
               opening_low, day_no, day_len, day_slot, day_pos >>
ledger_vars == << cash, shares, avg_cost, positions_history >>
run_vars == << config, trades, realized_pnl, trade_count, equity_curve,
               next_signal, entry_price, executed_trades, order_result >>
vars == << pc, gen_vars, ledger_vars, run_vars >>

Init ==
    /\ pc = "next_day"
    /\ strategy_type \in Strategies
    /\ strategy = Flat
    /\ df = << >>
    /\ Signal = << >>
    /\ volume_sum = 0
    /\ opening_high = 0
    /\ opening_low = 0
    /\ day_no = 0
    /\ day_len = 0
    /\ day_slot = 0
    /\ day_pos = 0
    /\ config = None
    /\ cash = 0
    /\ shares = 0
    /\ avg_cost = FracZero
    /\ positions_history = << >>
    /\ trades = << >>
    /\ realized_pnl = 0
    /\ trade_count = 0
    /\ equity_curve = << >>
    /\ next_signal = 0
    /\ entry_price = None
    /\ executed_trades = 0
    /\ order_result = None

(***************************************************************************)
(* calculate_signals: `for date, day_data in df.groupby('Date')`.          *)
(* The Bar Series is an input; the model reveals it bar by bar, a session  *)
(* at a time, its length (which the code reads before the first bar) being *)
(* fixed when the session starts.                                          *)
(***************************************************************************)
CloseColumn == [i \in 1..Len(df) |-> df[i].Close]

\* Bars inside the rolling volume window once one more bar is in it.  A Bar
\* Series of the model is shorter than the window, so the window never
\* slides and its sum is the running sum.
VolumeCount ==
    IF Len(df) + 1 < volume_window THEN Len(df) + 1 ELSE volume_window

\* Session lengths the model feeds: a one-bar session, too short for every
\* generator, sessions long enough for the opening-range and mean-reversion
\* generators, and one long enough for all three.
SessionLengths == {1, 3, 4, 6}

\* A session of n bars starts at the first slot of the grid or ends at its
\* last slot.
StartSlots(n) == {1, Len(TimeGrid) - n + 1}

StartDay ==
    /\ pc = "next_day"
    /\ day_no < MaxDays
    /\ \E n \in SessionLengths :
         /\ Len(df) + n <= MaxBars
         /\ n <= Len(TimeGrid)
         /\ \E s \in StartSlots(n) :
               /\ day_len' = n
               /\ day_slot' = s
               /\ pc' = IF n < MinSessionBars(strategy_type) THEN "skip_day"
                        ELSE "bars"
    /\ day_no' = day_no + 1
    /\ day_pos' = 0
    \* intraday_mean_reversion_strategy.py:89
    /\ strategy' = IF strategy_type = "mean_reversion"
                   THEN [strategy EXCEPT !.positions_today = 0]
                   ELSE strategy
    /\ UNCHANGED << strategy_type, df, Signal, volume_sum, opening_high,
                    opening_low, ledger_vars, run_vars >>

\* The next bar of the session joins the table.
Reveal(bar, sig) ==
    /\ df' = Append(df, Row(Timestamp(day_no, day_slot + day_pos), bar))
    /\ Signal' = Append(Signal, sig)
    /\ volume_sum' = volume_sum + bar.Volume
    /\ day_pos' = day_pos + 1
    /\ UNCHANGED << strategy_type, day_no, day_len, day_slot,
                    ledger_vars, run_vars >>

\* A bar of a session that is too short: `continue`, nothing is evaluated.
SkippedBar ==
    /\ pc = "skip_day"
    /\ \E bar \in BarInputs : Reveal(bar, 0)
    /\ pc' = IF day_pos + 1 = day_len THEN "next_day" ELSE pc
    /\ UNCHANGED << strategy, opening_high, opening_low >>

\* opening_momentum_strategy.py:76-80: a bar of the opening range.
OpeningRangeBar ==
    /\ pc = "bars"
    /\ strategy_type = "opening_momentum"
    /\ day_pos < opening_range_minutes
    /\ \E bar \in BarInputs :
         /\ Reveal(bar, 0)
         /\ opening_high' = IF day_pos = 0 \/ bar.High > opening_high
                            THEN bar.High ELSE opening_high
         /\ opening_low' = IF day_pos = 0 \/ bar.Low < opening_low
                           THEN bar.Low ELSE opening_low
    /\ pc' = IF day_pos + 1 = day_len THEN "close_day" ELSE pc
    /\ UNCHANGED strategy

\* One iteration of the per-bar loop.
BarStep(bar) ==
    LET ts == Timestamp(day_no, day_slot + day_pos)
        closes == Append(CloseColumn, bar.Close)
        vsum == volume_sum + bar.Volume
    IN  IF strategy_type = "opening_momentum"
        THEN OpeningBar(strategy, bar, vsum, VolumeCount,
                        opening_high, opening_low)
        ELSE IF strategy_type = "mean_reversion"
        THEN MeanReversionBar(strategy, bar, ts, closes)
        ELSE MomentumBar(strategy, bar, ts, closes, vsum, VolumeCount)

ProcessBar ==
    /\ pc = "bars"
    /\ ~(strategy_type = "opening_momentum" /\ day_pos < opening_range_minutes)
    /\ \E bar \in BarInputs :
         /\ Reveal(bar, BarStep(bar).signal)
         /\ strategy' = BarStep(bar).st
    /\ pc' = IF day_pos + 1 = day_len THEN "close_day" ELSE pc
    /\ UNCHANGED << opening_high, opening_low >>

\* The block after the per-bar loop.
CloseDay ==
    /\ pc = "close_day"
    /\ LET r == ForcedClose(strategy_type, strategy, Signal[Len(df)])
       IN  /\ Signal' = [Signal EXCEPT ![Len(df)] = r.signal]
           /\ strategy' = r.st
    /\ pc' = "next_day"
    \* the session's opening range goes out of scope with the session
    /\ opening_high' = 0
    /\ opening_low' = 0
    /\ UNCHANGED << strategy_type, df, volume_sum, day_no, day_len, day_slot,
                    day_pos, ledger_vars, run_vars >>

GenNext == StartDay \/ SkippedBar \/ OpeningRangeBar \/ ProcessBar \/ CloseDay

GenSpec == Init /\ [][GenNext]_vars


(***************************************************************************)
(* Configuration (config.py).  Rates are fractions; amounts are in money   *)
(* units.  partial_fill_prob is a probability in [0, 1].                   *)
(***************************************************************************)
Configs ==
    { [position_type |-> "fixed_capital",
       fixed_shares |-> 4,
       capital_pct |-> [num |-> 15, den |-> 16],
       initial_capital |-> 40 * MoneyScale,
       slippage_pct |-> [num |-> 1, den |-> 4],
       partial_fill_prob |-> [num |-> 0, den |-> 1],
       commission_type |-> "percentage",
       commission_fixed |-> 0,
       commission_pct |-> [num |-> 1, den |-> 8]],
      [position_type |-> "fixed_shares",
       fixed_shares |-> 3,
       capital_pct |-> [num |-> 15, den |-> 16],
       initial_capital |-> 40 * MoneyScale,
       slippage_pct |-> [num |-> 1, den |-> 4],
       partial_fill_prob |-> [num |-> 1, den |-> 2],
       commission_type |-> "fixed",
       commission_fixed |-> MoneyScale \div 4,
       commission_pct |-> [num |-> 1, den |-> 8]],
      [position_type |-> "fixed_shares",
       fixed_shares |-> 1,
       capital_pct |-> [num |-> 15, den |-> 16],
       initial_capital |-> 40 * MoneyScale,
       slippage_pct |-> [num |-> 1, den |-> 4],
       partial_fill_prob |-> [num |-> 1, den |-> 1],
       commission_type |-> "percentage",
       commission_fixed |-> 0,
       commission_pct |-> [num |-> 1, den |-> 8]] }

\* Values np.random.random() returns in the model, in [0, 1).
RandomDraws == { [num |-> 0, den |-> 1], [num |-> 1, den |-> 2] }

\* Values np.random.uniform(0.5, 0.9) returns in the model.
UniformDraws == { [num |-> 1, den |-> 2], [num |-> 7, den |-> 8] }

(***************************************************************************)
(* OrderSimulator.simulate_order.  r and u are the two random draws; u is  *)
(* read only when r < partial_fill_prob.                                   *)
(***************************************************************************)
\* Variant: the decision bar itself counts as future data.
FutureData_Inclusive(table, signal_time) ==
    { j \in 1..Len(table) : table[j].ts >= signal_time }

\* self.df_1m[self.df_1m.index > signal_time], as row numbers
FutureData(table, signal_time) ==
    { j \in 1..Len(table) : table[j].ts > signal_time }

\* Variant: the last future bar instead of the first.
NextBar_Last(table, signal_time) ==
    CHOOSE j \in FutureData(table, signal_time) :
        \A k \in FutureData(table, signal_time) : j >= k

\* future_data.iloc[0]: the table is sorted by timestamp
NextBar(table, signal_time) ==
    CHOOSE j \in FutureData(table, signal_time) :
        \A k \in FutureData(table, signal_time) : j <= k

\* Variant: the slippage improves the price.
simulate_order_Favourable(table, cfg, signal_time, signal_type, n, r, u) ==
    IF FutureData(table, signal_time) = {} THEN None
    ELSE
    LET next_bar == table[NextBar(table, signal_time)]
        base_price == IF signal_type = 1 THEN next_bar.ask ELSE next_bar.bid
        slippage == ((base_price * cfg.slippage_pct.num)
                        \div cfg.slippage_pct.den)
                    * (IF signal_type = 1 THEN -1 ELSE 1)
        execution_price == base_price + slippage
        filled_shares ==
            IF r.num * cfg.partial_fill_prob.den
                   < cfg.partial_fill_prob.num * r.den
            THEN TruncDiv(n * u.num, u.den)
            ELSE n
    IN  Some([signal_time |-> signal_time,
         execution_time |-> next_bar.ts,
         signal_type |-> IF signal_type = 1 THEN "BUY" ELSE "SELL",
         base_price |-> base_price,
         execution_price |-> execution_price,
         slippage |-> slippage,
         requested_shares |-> n,
         filled_shares |-> filled_shares,
         total_value |-> execution_price * filled_shares])

simulate_order(table, cfg, signal_time, signal_type, n, r, u) ==
    IF FutureData(table, signal_time) = {} THEN None
    ELSE
    LET next_bar == table[NextBar(table, signal_time)]
        base_price == IF signal_type = 1 THEN next_bar.ask ELSE next_bar.bid
        slippage == ((base_price * cfg.slippage_pct.num)
                        \div cfg.slippage_pct.den)
                    * (IF signal_type = 1 THEN 1 ELSE -1)
        execution_price == base_price + slippage
        filled_shares ==
            IF r.num * cfg.partial_fill_prob.den
                   < cfg.partial_fill_prob.num * r.den
            THEN TruncDiv(n * u.num, u.den)
            ELSE n
    IN  Some([signal_time |-> signal_time,
         execution_time |-> next_bar.ts,
         signal_type |-> IF signal_type = 1 THEN "BUY" ELSE "SELL",
         base_price |-> base_price,
         execution_price |-> execution_price,
         slippage |-> slippage,
         requested_shares |-> n,
         filled_shares |-> filled_shares,
         total_value |-> execution_price * filled_shares])

(***************************************************************************)
(* CostCalculator.                                                         *)
(***************************************************************************)
\* Variant: the fixed amount is charged on top of the percentage.
calculate_commission_Both(cfg, order_value) ==
    cfg.commission_fixed
        + (order_value * cfg.commission_pct.num) \div cfg.commission_pct.den

calculate_commission(cfg, order_value) ==
    IF cfg.commission_type = "fixed" THEN cfg.commission_fixed
    ELSE (order_value * cfg.commission_pct.num) \div cfg.commission_pct.den

calculate_spread_cost(bid, ask, n) == (ask - bid) * n

calculate_total_cost(cfg, order, bid, ask) ==
    LET commission == calculate_commission(cfg, order.total_value)
        slippage_cost == Abs(order.slippage) * order.filled_shares
    IN  [commission |-> commission,
         slippage_cost |-> slippage_cost,
         spread_cost |-> calculate_spread_cost(bid, ask, order.filled_shares),
         total_cost |-> commission + slippage_cost]

(***************************************************************************)
(* PositionManager.  A ledger is [cash, shares, avg_cost].                 *)
(***************************************************************************)
\* Variant: a Sell is sized like a Buy.
calculate_position_size_AnySide(cfg, ledger, price, signal_type) ==
    IF cfg.position_type = "fixed_shares"
    THEN cfg.fixed_shares
    ELSE TruncDiv(ledger.cash * cfg.capital_pct.num,
                  cfg.capital_pct.den * price)

calculate_position_size(cfg, ledger, price, signal_type) ==
    IF signal_type = 1
    THEN IF cfg.position_type = "fixed_shares"
         THEN cfg.fixed_shares
         ELSE TruncDiv(ledger.cash * cfg.capital_pct.num,
                       cfg.capital_pct.den * price)
    ELSE ledger.shares

\* Variant: a Buy averages over the bought shares alone.
update_position_LastPrice(ledger, order, commission) ==
    LET n == order.filled_shares
        price == order.execution_price
    IN  IF order.signal_type = "BUY"
        THEN [cash |-> ledger.cash - (price * n + commission),
              shares |-> ledger.shares + n,
              avg_cost |-> IF ledger.shares + n > 0 THEN Frac(price, 1)
                           ELSE FracZero]
        ELSE [cash |-> ledger.cash + (price * n - commission),
              shares |-> ledger.shares - n,
              avg_cost |-> IF ledger.shares - n = 0 THEN FracZero
                           ELSE ledger.avg_cost]

\* Variant: a Sell adds the commission to the proceeds.
update_position_SellAddsCommission(ledger, order, commission) ==
    LET n == order.filled_shares
        price == order.execution_price
    IN  IF order.signal_type = "BUY"
        THEN LET held == ledger.shares + n
                 total_num == ledger.avg_cost.num * ledger.shares
                              + price * n * ledger.avg_cost.den
             IN  [cash |-> ledger.cash - (price * n + commission),
                  shares |-> held,
                  avg_cost |-> IF held > 0
                               THEN Frac(total_num, ledger.avg_cost.den * held)
                               ELSE FracZero]
        ELSE [cash |-> ledger.cash + (price * n + commission),
              shares |-> ledger.shares - n,
              avg_cost |-> IF ledger.shares - n = 0 THEN FracZero
                           ELSE ledger.avg_cost]

\* Variant: a Sell that empties the ledger keeps the average cost.
update_position_KeepsAvg(ledger, order, commission) ==
    LET n == order.filled_shares
        price == order.execution_price
    IN  IF order.signal_type = "BUY"
        THEN LET held == ledger.shares + n
                 total_num == ledger.avg_cost.num * ledger.shares
                              + price * n * ledger.avg_cost.den
             IN  [cash |-> ledger.cash - (price * n + commission),
                  shares |-> held,
                  avg_cost |-> IF held > 0
                               THEN Frac(total_num, ledger.avg_cost.den * held)
                               ELSE FracZero]
        ELSE [cash |-> ledger.cash + (price * n - commission),
              shares |-> ledger.shares - n,
              avg_cost |-> ledger.avg_cost]

update_position(ledger, order, commission) ==
    LET n == order.filled_shares
        price == order.execution_price
    IN  IF order.signal_type = "BUY"
        THEN LET held == ledger.shares + n
                 \* avg_cost * shares + execution_price * filled_shares
                 total_num == ledger.avg_cost.num * ledger.shares
                              + price * n * ledger.avg_cost.den
             IN  [cash |-> ledger.cash - (price * n + commission),
                  shares |-> held,
                  avg_cost |-> IF held > 0
                               THEN Frac(total_num, ledger.avg_cost.den * held)
                               ELSE FracZero]
        ELSE [cash |-> ledger.cash + (price * n - commission),
              shares |-> ledger.shares - n,
              avg_cost |-> IF ledger.shares - n = 0 THEN FracZero
                           ELSE ledger.avg_cost]

\* Variant: the price is counted once whatever the holding.
get_equity_OneShare(ledger, current_price) ==
    ledger.cash + current_price

get_equity(ledger, current_price) ==
    ledger.cash + ledger.shares * current_price

(***************************************************************************)
(* PnLTracker.record_trade: the trade appended to the log.  A Buy or a     *)
(* Sell recorded without an entry price has no PnL fields (None).          *)
(***************************************************************************)
\* `order_result['signal_type'] == 'SELL' and entry_price`
HasPnL(order, entry) ==
    order.signal_type = "SELL" /\ entry # None /\ entry[1] # 0

\* Variant: trade ids are counted from 1.
record_trade_IdFromOne(count, order, costs, entry) ==
    LET gross_pnl == (order.execution_price - entry[1]) * order.filled_shares
    IN  [trade_id |-> count + 1,
         execution_time |-> order.execution_time,
         signal_type |-> order.signal_type,
         execution_price |-> order.execution_price,
         filled_shares |-> order.filled_shares,
         total_value |-> order.total_value,
         commission |-> costs.commission,
         slippage_cost |-> costs.slippage_cost,
         total_cost |-> costs.total_cost,
         entry_price |-> IF HasPnL(order, entry) THEN entry ELSE None,
         gross_pnl |-> IF HasPnL(order, entry) THEN Some(gross_pnl) ELSE None,
         net_pnl |-> IF HasPnL(order, entry)
                     THEN Some(gross_pnl - costs.total_cost) ELSE None]

\* Variant: a Buy record books its own cost as a loss.
record_trade_CostOnBuy(count, order, costs, entry) ==
    LET gross_pnl == (order.execution_price - entry[1]) * order.filled_shares
    IN  [trade_id |-> count,
         execution_time |-> order.execution_time,
         signal_type |-> order.signal_type,
         execution_price |-> order.execution_price,
         filled_shares |-> order.filled_shares,
         total_value |-> order.total_value,
         commission |-> costs.commission,
         slippage_cost |-> costs.slippage_cost,
         total_cost |-> costs.total_cost,
         entry_price |-> IF HasPnL(order, entry) THEN entry ELSE None,
         gross_pnl |-> IF HasPnL(order, entry) THEN Some(gross_pnl)
                       ELSE IF order.signal_type = "BUY" THEN Some(0)
                       ELSE None,
         net_pnl |-> IF HasPnL(order, entry)
                     THEN Some(gross_pnl - costs.total_cost)
                     ELSE IF order.signal_type = "BUY"
                     THEN Some(0 - costs.total_cost)
                     ELSE None]

record_trade(count, order, costs, entry) ==
    LET gross_pnl == (order.execution_price - entry[1]) * order.filled_shares
    IN  [trade_id |-> count,
         execution_time |-> order.execution_time,
         signal_type |-> order.signal_type,
         execution_price |-> order.execution_price,
         filled_shares |-> order.filled_shares,
         total_value |-> order.total_value,
         commission |-> costs.commission,
         slippage_cost |-> costs.slippage_cost,
         total_cost |-> costs.total_cost,
         entry_price |-> IF HasPnL(order, entry) THEN entry ELSE None,
         gross_pnl |-> IF HasPnL(order, entry) THEN Some(gross_pnl) ELSE None,
         net_pnl |-> IF HasPnL(order, entry)
                     THEN Some(gross_pnl - costs.total_cost) ELSE None]

(***************************************************************************)
(* run_backtest, steps 4 to 5 (main.py).                                   *)
(***************************************************************************)
\* Row numbers of the bars with a non-zero Signal, in table order.
signal_times == SelectSeq([i \in 1..Len(df) |-> i], LAMBDA i : Signal[i] # 0)

Ledger == [cash |-> cash, shares |-> shares, avg_cost |-> avg_cost]

\* PerformanceAnalyzer.update_equity
update_equity(curve, timestamp, equity) ==
    Append(curve, [timestamp |-> timestamp, equity |-> equity])

(***************************************************************************)
(* PerformanceAnalyzer.calculate_metrics, drawdown part.  A drawdown is    *)
(* the ratio (equity - peak) / peak, kept as the pair [num, den] of its    *)
(* two terms; ratios are compared without forming products.                *)
(***************************************************************************)
\* a / b < c / d for b > 0 and d > 0
RatioLess(a, b, c, d) ==
    IF a < 0 /\ c >= 0 THEN TRUE
    ELSE IF a >= 0 /\ c < 0 THEN FALSE
    ELSE IF a >= 0 THEN FracLess(a, b, c, d)
    ELSE FracLess(-c, d, -a, b)

\* Variant: the peak is the first equity of the curve.
cummax_First(curve, k) == curve[1].equity

\* equity_df['equity'].cummax() at row k
RECURSIVE cummax(_, _)
cummax(curve, k) ==
    IF k = 1 THEN curve[1].equity
    ELSE LET before == cummax(curve, k - 1)
         IN  IF curve[k].equity > before THEN curve[k].equity ELSE before

\* equity_df['drawdown'] at row k
drawdown(curve, k) ==
    [num |-> curve[k].equity - cummax(curve, k), den |-> cummax(curve, k)]

\* equity_df['drawdown'].min(): the scan keeps the smaller ratio
RECURSIVE max_drawdown(_, _)
max_drawdown(curve, k) ==
    IF k = 1 THEN drawdown(curve, 1)
    ELSE LET before == max_drawdown(curve, k - 1)
             here == drawdown(curve, k)
         IN  IF RatioLess(here.num, here.den, before.num, before.den)
             THEN here ELSE before

(***************************************************************************)
(* PerformanceAnalyzer.calculate_metrics, trade statistics.  A trade       *)
(* without net PnL is a NaN in the net_pnl column: it is neither > 0 nor   *)
(* < 0 and is left out of a mean.  The ratios are fractions.               *)
(***************************************************************************)
\* 'net_pnl' in trades_df.columns: some record has the key
HasNetPnLColumn(log) == \E k \in 1..Len(log) : log[k].net_pnl # None

closed_trades(log) == { k \in 1..Len(log) : log[k].signal_type = "SELL" }

winning_trades(log) ==
    { k \in closed_trades(log) : log[k].net_pnl # None /\ log[k].net_pnl[1] > 0 }

losing_trades(log) ==
    { k \in closed_trades(log) : log[k].net_pnl # None /\ log[k].net_pnl[1] < 0 }

\* Sum of the net PnL of the records whose row number is in rows.
RECURSIVE NetPnLSum(_, _)
NetPnLSum(log, rows) ==
    IF rows = {} THEN 0
    ELSE LET k == CHOOSE x \in rows : TRUE
         IN  log[k].net_pnl[1] + NetPnLSum(log, rows \ {k})

\* win_rate_pct
win_rate(log) ==
    IF Len(log) > 0 /\ HasNetPnLColumn(log) /\ closed_trades(log) # {}
    THEN Frac(100 * Cardinality(winning_trades(log)),
              Cardinality(closed_trades(log)))
    ELSE FracZero

\* avg_win / avg_loss, with avg_loss = 1 (one currency unit) when no
\* closing trade lost
profit_factor(log) ==
    IF Len(log) > 0 /\ HasNetPnLColumn(log) /\ closed_trades(log) # {}
    THEN LET wins == winning_trades(log)
             losses == losing_trades(log)
             win_sum == NetPnLSum(log, wins)
             loss_sum == Abs(NetPnLSum(log, losses))
         IN  IF wins = {} THEN FracZero
             ELSE IF losses = {}
             THEN Frac(win_sum, Cardinality(wins) * MoneyScale)
             ELSE Frac(win_sum * Cardinality(losses),
                       Cardinality(wins) * loss_sum)
    ELSE FracZero

\* Step 4: calculate_signals has returned a non-empty table (load_1m_data
\* rejects an empty one); the components are built from the configuration.
InitComponentsFrom(cfgs) ==
    /\ pc = "next_day"
    /\ Len(df) >= 1
    /\ \E cfg \in cfgs :
         /\ config' = cfg
         /\ cash' = cfg.initial_capital
    /\ shares' = 0
    /\ avg_cost' = FracZero
    /\ positions_history' = << >>
    /\ trades' = << >>
    /\ realized_pnl' = 0
    /\ trade_count' = 0
    /\ equity_curve' = << >>
    /\ next_signal' = 1
    /\ entry_price' = None
    /\ executed_trades' = 0
    /\ order_result' = None
    /\ pc' = "loop"
    \* the locals of calculate_signals are gone
    /\ volume_sum' = 0
    /\ day_no' = 0
    /\ day_len' = 0
    /\ day_slot' = 0
    /\ day_pos' = 0
    /\ UNCHANGED << strategy_type, strategy, df, Signal, opening_high,
                    opening_low >>

InitComponents == InitComponentsFrom(Configs)

\* The constructors store what they are given (PositionManager.__init__
\* copies config.initial_capital and keeps the config): a PositionConfig
\* with a negative capital fraction builds the components like any other.
NegativeFractionConfigs ==
    { [position_type |-> "fixed_capital",
       fixed_shares |-> 4,
       capital_pct |-> [num |-> -15, den |-> 16],
       initial_capital |-> 40 * MoneyScale,
       slippage_pct |-> [num |-> 1, den |-> 4],
       partial_fill_prob |-> [num |-> 0, den |-> 1],
       commission_type |-> "percentage",
       commission_fixed |-> 0,
       commission_pct |-> [num |-> 1, den |-> 8]] }

InitComponentsNegativeFraction == InitComponentsFrom(NegativeFractionConfigs)

\* One iteration of `for signal_time in signal_times`.
BacktestStep ==
    /\ pc = "loop"
    /\ next_signal <= Len(signal_times)
    /\ LET row == signal_times[next_signal]
           signal_time == df[row].ts
           signal_type == Signal[row]
           current_price == df[row].Close * MoneyScale
           size == calculate_position_size(config, Ledger, current_price,
                                           signal_type)
       IN  /\ equity_curve' = update_equity(equity_curve, signal_time,
                                            get_equity(Ledger, current_price))
           /\ IF size = 0
              THEN UNCHANGED << ledger_vars, trades, realized_pnl, trade_count,
                                entry_price, executed_trades, order_result >>
              ELSE \E r \in RandomDraws, u \in UniformDraws :
                   LET result == simulate_order(df, config, signal_time,
                                                signal_type, size, r, u)
                       order == result[1]
                   IN  /\ order_result' = result
                       /\ IF result = None
                          THEN UNCHANGED << ledger_vars, trades, realized_pnl,
                                            trade_count, entry_price,
                                            executed_trades >>
                          ELSE
                          LET exec_row == df[NextBar(df, signal_time)]
                              costs == calculate_total_cost(config, order,
                                           exec_row.bid, exec_row.ask)
                              after == update_position(Ledger, order,
                                                       costs.commission)
                              entry == IF signal_type = 1 THEN None
                                       ELSE entry_price
                              trade == record_trade(trade_count, order, costs,
                                                    entry)
                          IN  /\ cash' = after.cash
                              /\ shares' = after.shares
                              /\ avg_cost' = after.avg_cost
                              /\ positions_history' =
                                   Append(positions_history,
                                          [time |-> order.execution_time,
                                           action |-> order.signal_type,
                                           shares |-> after.shares,
                                           cash |-> after.cash,
                                           avg_cost |-> after.avg_cost])
                              /\ trades' = Append(trades, trade)
                              /\ trade_count' = trade_count + 1
                              /\ realized_pnl' =
                                   IF trade.net_pnl # None
                                   THEN realized_pnl + trade.net_pnl[1]
                                   ELSE realized_pnl
                              /\ entry_price' =
                                   IF signal_type = 1
                                   THEN Some(order.execution_price)
                                   ELSE None
                              /\ executed_trades' = executed_trades + 1
    /\ next_signal' = next_signal + 1
    /\ UNCHANGED << pc, gen_vars, config >>

\* After the loop: the final equity update.
FinalEquity ==
    /\ pc = "loop"
    /\ next_signal > Len(signal_times)
    /\ equity_curve' = update_equity(equity_curve, df[Len(df)].ts,
                           get_equity(Ledger, df[Len(df)].Close * MoneyScale))
    /\ pc' = "done"
    /\ UNCHANGED << gen_vars, ledger_vars, config, trades, realized_pnl,
                    trade_count, next_signal, entry_price, executed_trades,
                    order_result >>

Next ==
    \/ StartDay
    \/ SkippedBar
    \/ OpeningRangeBar
    \/ ProcessBar
    \/ CloseDay
    \/ InitComponents
    \/ BacktestStep
    \/ FinalEquity

Spec == Init /\ [][Next]_vars

\* run_backtest called with a configuration whose capital fraction is
\* negative.
CfgNext ==
    \/ StartDay
    \/ SkippedBar
    \/ OpeningRangeBar
    \/ ProcessBar
    \/ CloseDay
    \/ InitComponentsNegativeFraction
    \/ BacktestStep
    \/ FinalEquity

CfgSpec == Init /\ [][CfgNext]_vars


(***************************************************************************)
(* Properties.                                                             *)
(***************************************************************************)
Timestamps == { df[j].ts : j \in 1..Len(df) }

\* C1: every order the Order Simulator fills executes at the first bar of
\* the series whose timestamp is strictly greater than the decision
\* timestamp; so execution timestamp > decision timestamp.
C1_ExecutionAtNextBar ==
    order_result # None =>
        LET o == order_result[1]
        IN  /\ o.execution_time > o.signal_time
            /\ o.execution_time \in Timestamps
            /\ \A t \in Timestamps :
                   t > o.signal_time => o.execution_time <= t

\* C1 case: an order was filled and a later bar than its execution bar
\* exists, so "first" is a real choice.
C1_Witness ==
    /\ order_result # None
    /\ \E t \in Timestamps : t > order_result[1].execution_time

\* C2: when the run is over the Position Ledger holds 0 shares, because a
\* position still open at the final bar of the series is force-closed.
C2_FlatAtSeriesEnd == pc = "done" => shares = 0

\* C3: a Buy Fill followed immediately by a Sell Fill of the same shares has,
\* on the Sell record, net PnL = (sell execution price - buy execution
\* price) * shares - (total_cost of the Buy leg + total_cost of the Sell
\* leg).
C3_NetPnLBothLegs ==
    \A k \in 1..(Len(trades) - 1) :
        ( /\ trades[k].signal_type = "BUY"
          /\ trades[k + 1].signal_type = "SELL"
          /\ trades[k + 1].filled_shares = trades[k].filled_shares )
        => trades[k + 1].net_pnl =
             Some((trades[k + 1].execution_price - trades[k].execution_price)
                      * trades[k].filled_shares
                  - (trades[k].total_cost + trades[k + 1].total_cost))

\* A loop iteration records a Sell Fill.
SellRecorded ==
    /\ trade_count' = trade_count + 1
    /\ Last(trades').signal_type = "SELL"

\* C4: for every Sell Fill recorded, the entry price passed to record_trade
\* (the run's entry_price local) equals the ledger's average cost as it was
\* immediately before the Sell reduced the position.
C4_EntryPriceIsAvgCost ==
    [][SellRecorded =>
          /\ entry_price # None
          /\ Frac(entry_price[1], 1) = avg_cost]_vars

\* C5: after the run every bar timestamp of the series has exactly one
\* Equity Point, also the bars that carry no Signal.
C5_EquityPointPerBar ==
    pc = "done" =>
        \A t \in Timestamps :
            Cardinality({ k \in 1..Len(equity_curve) :
                            equity_curve[k].timestamp = t }) = 1

\* C6: Equity Points are in strictly increasing timestamp order; no two of
\* them share a timestamp, the final equity update included.
C6_EquityStrictlyIncreasing ==
    \A k \in 1..(Len(equity_curve) - 1) :
        equity_curve[k].timestamp < equity_curve[k + 1].timestamp

\* C7: the ledger's shares held are never negative.
C7_SharesNonNegative == shares >= 0

\* C8: in every ledger state, average cost is 0 whenever shares held is 0.
C8_AvgCostZeroWhenFlat == shares = 0 => avg_cost = FracZero

\* C8 case: a Buy and then a Sell were filled, and the Sell brought the
\* shares to 0.
C8_Witness ==
    /\ shares = 0
    /\ Len(trades) >= 2
    /\ Last(trades).signal_type = "SELL"
    /\ Last(trades).filled_shares > 0

\* C9: when the processing of a session's first bar begins the generator is
\* Flat (not in position, entry price 0, position type 0, per-session entry
\* counter 0), whatever happened in earlier sessions.
C9_FlatAtSessionStart ==
    (pc \in {"bars", "skip_day"} /\ day_pos = 0) =>
        /\ strategy.in_position = FALSE
        /\ strategy.entry_price = 0
        /\ strategy.position_type = 0
        /\ strategy.positions_today = 0

\* C9 case: a second session starts after a session in which the generator
\* entered a position.
C9_Witness ==
    /\ pc \in {"bars", "skip_day"}
    /\ day_pos = 0
    /\ day_no = 2
    /\ \E i \in 1..Len(df) : Signal[i] # 0

\* C10: a generator still in position after the last bar of a session
\* leaves the closing signal at that bar (-1 for a long position, +1 for a
\* short one) and is Flat before the next session starts.
C10_ForcedSessionClose ==
    [][(pc = "close_day" /\ strategy.in_position) =>
          /\ Signal'[Len(df)] = ClosingSignal(strategy_type, strategy)
          /\ strategy'.in_position = FALSE
          /\ strategy'.entry_price = 0
          /\ strategy'.position_type = 0]_vars

(***************************************************************************)
(* Second group of properties.                                             *)
(***************************************************************************)
\* C11: the Signal of a bar depends only on the bars up to and including
\* it.  The table is revealed bar by bar, so two series that agree up to
\* bar i are one behaviour up to the step that evaluates bar i; the claim
\* says that nothing that comes after that step (more bars of the session,
\* the end of the session, a later session) changes a Signal already
\* written.
C11_NoLookAhead ==
    [][\A i \in 1..Len(Signal) : Signal'[i] = Signal[i]]_vars

\* C12: a signal at the final bar of the table has no bar after its
\* decision timestamp.  The iteration of run_backtest that handles it ends
\* without a Fill: the order result is absent and the cash, the shares, the
\* average cost, the trade log and the realized PnL are exactly as before.
C12_NoFutureBarNoChange ==
    [][(/\ pc = "loop"
        /\ next_signal <= Len(signal_times)
        /\ signal_times[next_signal] = Len(df)
        /\ next_signal' = next_signal + 1)
       => /\ cash' = cash
          /\ shares' = shares
          /\ avg_cost' = avg_cost
          /\ positions_history' = positions_history
          /\ trades' = trades
          /\ trade_count' = trade_count
          /\ realized_pnl' = realized_pnl
          /\ (calculate_position_size(config, Ledger,
                  df[Len(df)].Close * MoneyScale, Signal[Len(df)]) # 0
              => order_result' = None)]_vars

\* A Sell for held shares was decided at the final bar, after an earlier
\* order had been filled, and the loop has gone past it.
C12_Witness ==
    /\ pc = "loop"
    /\ next_signal > Len(signal_times)
    /\ Len(signal_times) >= 2
    /\ Signal[Len(df)] = -1
    /\ shares > 0
    /\ Len(trades) >= 1
    /\ order_result = None

\* The exit thresholds of the running generator.
ExitParams ==
    IF strategy_type = "opening_momentum" THEN OpeningParams
    ELSE IF strategy_type = "mean_reversion" THEN MeanReversionParams
    ELSE MomentumParams

\* The position is long (the opening generator only buys).
HeldLong == strategy_type = "opening_momentum" \/ strategy.position_type = 1

\* Stop-loss and profit-target breach of the held position on a bar.
StopLossHolds(bar) ==
    IF HeldLong
    THEN LeqBelow(bar.Low, strategy.entry_price, ExitParams.stop_loss_pct)
    ELSE GeqAbove(bar.High, strategy.entry_price, ExitParams.stop_loss_pct)

ProfitTargetHolds(bar) ==
    IF HeldLong
    THEN GeqAbove(bar.High, strategy.entry_price, ExitParams.profit_target_pct)
    ELSE LeqBelow(bar.Low, strategy.entry_price, ExitParams.profit_target_pct)

\* The indicators of the running generator are defined on the next bar.
IndicatorsDefined(bar) ==
    LET closes == Append(CloseColumn, bar.Close)
    IN  IF strategy_type = "opening_momentum" THEN TRUE
        ELSE IF strategy_type = "mean_reversion"
        THEN ~MaIsNaN(closes) /\ ~RsiIsNaN(closes) /\ ~StdIsNaN(closes)
        ELSE ~MomentumIsNaN(closes)

\* C13: while in position, whatever the next bar of the session is, the
\* per-bar step writes at most one exit: the Signal is 0 with the state
\* untouched, or it is the closing signal and the generator is Flat after
\* the bar (no entry on the same bar).  On a bar, not the session's last
\* one, with its indicators defined, on which the stop-loss and the profit
\* target hold at once, the closing signal is written: exactly one exit
\* fires.
C13_OneExitPerBar ==
    (pc = "bars" /\ strategy.in_position) =>
        \A bar \in BarInputs :
            LET r == BarStep(bar)
                closing == ClosingSignal(strategy_type, strategy)
            IN  /\ r.signal \in {0, closing}
                /\ r.signal = 0 => r.st = strategy
                /\ r.signal = closing =>
                      /\ ~r.st.in_position
                      /\ r.st.entry_price = 0
                      /\ r.st.positions_today = strategy.positions_today
                /\ (/\ day_pos + 1 < day_len
                    /\ IndicatorsDefined(bar)
                    /\ StopLossHolds(bar)
                    /\ ProfitTargetHolds(bar))
                   => r.signal = closing

\* Number of trades of one kind ("BUY" or "SELL") in the trade log.
CountTrades(kind) ==
    Cardinality({ k \in 1..Len(trades) : trades[k].signal_type = kind })

\* The table is one session of the opening generator with prices that never
\* fall, the generator entered once, before the final bar, and orders are
\* filled in full.
OpeningRisingSession ==
    /\ strategy_type = "opening_momentum"
    /\ Len(df) >= 1
    /\ DateOf(df[1].ts) = DateOf(df[Len(df)].ts)
    /\ \A j \in 1..(Len(df) - 1) : df[j].Close <= df[j + 1].Close
    /\ Cardinality({ j \in 1..Len(Signal) : Signal[j] = 1 }) = 1
    /\ Signal[Len(df)] # 1
    /\ config # None
    /\ config.partial_fill_prob.num = 0

\* C15: a run over one rising session in which the opening generator
\* enters once ends with exactly one Buy fill and exactly one exit fill
\* (the exit being the profit target or the forced session close).
C15_OneBuyOneExit ==
    (pc = "done" /\ OpeningRisingSession) =>
        /\ CountTrades("BUY") = 1
        /\ CountTrades("SELL") = 1

\* No bar of the table carries a Buy or a Sell.
NoSignal == \A i \in 1..Len(Signal) : Signal[i] = 0

\* C16: a run over a table whose Signal column is all Hold makes no trade:
\* the trade log stays empty, the ledger stays at its initial state and
\* every Equity Point equals the initial capital.
C16_NoSignalNoTrade ==
    (pc \in {"loop", "done"} /\ NoSignal) =>
        /\ trades = << >>
        /\ trade_count = 0
        /\ executed_trades = 0
        /\ realized_pnl = 0
        /\ positions_history = << >>
        /\ cash = config.initial_capital
        /\ shares = 0
        /\ avg_cost = FracZero
        /\ \A k \in 1..Len(equity_curve) :
              equity_curve[k].equity = config.initial_capital

\* A finished run over two sessions without a signal; its equity curve is
\* the final point alone.
C16_Witness ==
    /\ pc = "done"
    /\ NoSignal
    /\ Len(df) >= 4
    /\ DateOf(df[1].ts) # DateOf(df[Len(df)].ts)
    /\ Len(equity_curve) = 1

\* C17: every Fill for a request of at least one share has
\* filled <= requested, and a Fill that is partial (fewer shares than
\* requested) has between 50% and 90% of the requested shares.
C17_PartialFillRange ==
    (order_result # None /\ order_result[1].requested_shares >= 1) =>
        LET n == order_result[1].requested_shares
            f == order_result[1].filled_shares
        IN  /\ f <= n
            /\ f < n => (2 * f >= n /\ 10 * f <= 9 * n)

\* The signal the loop is about to handle asks for 0 shares: a Sell while
\* no share is held, or a Buy in fixed_capital mode when the capital
\* fraction of the cash does not pay for one share.
ZeroShareRequest ==
    /\ pc = "loop"
    /\ next_signal <= Len(signal_times)
    /\ LET row == signal_times[next_signal]
           price == df[row].Close * MoneyScale
       IN  \/ Signal[row] = -1 /\ shares = 0
           \/ /\ Signal[row] = 1
              /\ config.position_type = "fixed_capital"
              /\ Abs(cash * config.capital_pct.num)
                    < config.capital_pct.den * price

\* C18: a request of 0 shares is dropped before the Order Simulator is
\* called: the iteration leaves the order result, the ledger, the trade log
\* and the realized PnL as they were.
C18_ZeroSharesDropped ==
    [][(ZeroShareRequest /\ next_signal' = next_signal + 1)
       => /\ order_result' = order_result
          /\ cash' = cash
          /\ shares' = shares
          /\ avg_cost' = avg_cost
          /\ positions_history' = positions_history
          /\ trades' = trades
          /\ trade_count' = trade_count
          /\ realized_pnl' = realized_pnl
          /\ executed_trades' = executed_trades]_vars

\* The first signal of the run was a Sell while flat, a bar followed it,
\* and the loop has gone past it without an order result.
C18_Witness ==
    /\ pc = "loop"
    /\ next_signal = 2
    /\ Signal[signal_times[1]] = -1
    /\ signal_times[1] < Len(df)
    /\ order_result = None
    /\ trades = << >>
    /\ Len(equity_curve) = 1

\* C19: the ledger after a Fill, read off the trade that records it
\* (n shares at price p with commission c).  A Buy takes p n + c from the
\* cash and adds n shares; when shares are held after it the average cost
\* is (avg old + p n) / (old + n).  A Sell adds p n - c to the cash, takes
\* n shares, and leaves the average cost alone unless no share is left.
C19_UpdatePosition ==
    [][Len(trades') = Len(trades) + 1 =>
          LET t == trades'[Len(trades')]
              n == t.filled_shares
              p == t.execution_price
              c == t.commission
          IN  IF t.signal_type = "BUY"
              THEN /\ cash' = cash - (p * n + c)
                   /\ shares' = shares + n
                   /\ shares + n > 0 =>
                         avg_cost'.num * avg_cost.den * (shares + n)
                            = (avg_cost.num * shares + p * n * avg_cost.den)
                              * avg_cost'.den
              ELSE /\ cash' = cash + (p * n - c)
                   /\ shares' = shares - n
                   /\ shares - n # 0 => avg_cost' = avg_cost]_vars

\* A second Buy was filled on top of a holding bought at another price: the
\* average cost lies strictly between the two prices.
C19_Witness ==
    /\ Len(trades) >= 2
    /\ trades[Len(trades)].signal_type = "BUY"
    /\ trades[Len(trades)].filled_shares >= 1
    /\ shares > trades[Len(trades)].filled_shares
    /\ avg_cost.num # trades[Len(trades)].execution_price * avg_cost.den

\* C20: the size of the order for the signal the loop is about to handle.
\* A Buy asks for the fixed share count in fixed_shares mode and for
\* floor(cash * capital_fraction / price) in fixed_capital mode; a Sell asks
\* for the whole holding.  (\div rounds down.)
C20_PositionSize ==
    (pc = "loop" /\ next_signal <= Len(signal_times)) =>
        LET row == signal_times[next_signal]
            price == df[row].Close * MoneyScale
            size == calculate_position_size(config, Ledger, price,
                                            Signal[row])
        IN  IF Signal[row] = 1
            THEN IF config.position_type = "fixed_shares"
                 THEN size = config.fixed_shares
                 ELSE size = (cash * config.capital_pct.num)
                                \div (config.capital_pct.den * price)
            ELSE size = shares

(***************************************************************************)
(* Third group of properties.                                              *)
(***************************************************************************)
\* Sum of the net PnL of the Sell records among the first k trades; a Sell
\* recorded without an entry price has no net PnL and adds nothing.
RECURSIVE SellNetPnL(_)
SellNetPnL(k) ==
    IF k = 0 THEN 0
    ELSE SellNetPnL(k - 1)
         + (IF trades[k].signal_type = "SELL" /\ trades[k].net_pnl # None
            THEN trades[k].net_pnl[1] ELSE 0)

\* C21: the running realized PnL is the sum of the net PnL of the Sell
\* records of the trade log, and a Buy record has neither a gross nor a net
\* PnL (so it adds nothing to the realized PnL).
C21_RealizedIsSumOfSells ==
    /\ realized_pnl = SellNetPnL(Len(trades))
    /\ \A k \in 1..Len(trades) :
          trades[k].signal_type = "BUY" =>
              /\ trades[k].gross_pnl = None
              /\ trades[k].net_pnl = None
              /\ trades[k].entry_price = None

\* Two Sells with a net PnL are in the log, a Buy was recorded after the
\* first of them, and the realized PnL is not zero.
C21_Witness ==
    /\ Cardinality({ k \in 1..Len(trades) :
                        /\ trades[k].signal_type = "SELL"
                        /\ trades[k].net_pnl # None }) >= 2
    /\ \E j, k \in 1..Len(trades) :
          /\ j < k
          /\ trades[j].signal_type = "SELL"
          /\ trades[k].signal_type = "BUY"
    /\ realized_pnl # 0

\* C22: the trade log only grows, by one record for each Fill: a step
\* keeps every earlier record as it is and appends a record exactly when it
\* applies a Fill to the ledger; the trade ids are 0, 1, ..., n - 1 in
\* order and trade_count is the number of records.
C22_TradeLogAppendOnly ==
    /\ [](/\ trade_count = Len(trades)
          /\ \A k \in 1..Len(trades) : trades[k].trade_id = k - 1)
    /\ [][/\ \A k \in 1..Len(trades) :
                k <= Len(trades') /\ trades'[k] = trades[k]
          /\ Len(trades') <= Len(trades) + 1
          /\ Len(trades') = Len(trades) + 1
                <=> Len(positions_history') = Len(positions_history) + 1
          /\ Len(trades') = Len(trades) + 1 =>
                /\ order_result' # None
                /\ trades'[Len(trades')].execution_time
                      = order_result'[1].execution_time
                /\ trades'[Len(trades')].filled_shares
                      = order_result'[1].filled_shares]_vars

\* Three Fills have been recorded.
C22_Witness ==
    /\ Len(trades) = 3
    /\ trades[3].trade_id = 2
    /\ executed_trades = 3

\* C23: the costs recorded with every Fill: total_cost is commission plus
\* slippage_cost (the spread cost is not in it) and is never negative; for
\* the Fill just recorded, slippage_cost is |slippage per share| times the
\* filled shares.
C23_TotalCost ==
    /\ \A k \in 1..Len(trades) :
          /\ trades[k].total_cost
                = trades[k].commission + trades[k].slippage_cost
          /\ trades[k].total_cost >= 0
    /\ (/\ Len(trades) >= 1
        /\ order_result # None
        /\ order_result[1].execution_time
              = trades[Len(trades)].execution_time)
       => trades[Len(trades)].slippage_cost
             = Abs(order_result[1].slippage) * order_result[1].filled_shares

\* C24: the commission recorded with every Fill is notional times
\* commission_pct in percentage mode and the configured fixed amount in
\* fixed mode, whatever the notional; 0.1% of a notional of 10,000 is 10.
C24_Commission ==
    /\ \A k \in 1..Len(trades) :
          IF config.commission_type = "percentage"
          THEN trades[k].commission * config.commission_pct.den
                  = trades[k].total_value * config.commission_pct.num
          ELSE trades[k].commission = config.commission_fixed
    /\ calculate_commission([commission_type |-> "percentage",
                             commission_fixed |-> 0,
                             commission_pct |-> [num |-> 1, den |-> 1000]],
                            10000 * MoneyScale) = 10 * MoneyScale

\* A run in fixed mode has recorded two Fills of different notional.
C24_Witness ==
    /\ config # None
    /\ config.commission_type = "fixed"
    /\ config.commission_fixed > 0
    /\ \E j, k \in 1..Len(trades) :
          /\ trades[j].total_value # trades[k].total_value
          /\ trades[j].total_value > 0
          /\ trades[k].total_value > 0

\* C25: the latest Fill is priced from the bar it executes at: the base
\* price is that bar's ask for a Buy and its bid for a Sell, the slippage is
\* against the trader (execution price >= ask for a Buy, <= bid for a
\* Sell), and the notional is execution price times filled shares.
C25_AdverseSlippage ==
    (order_result # None /\ config.slippage_pct.num >= 0) =>
        LET o == order_result[1]
        IN  \E j \in 1..Len(df) :
               /\ df[j].ts = o.execution_time
               /\ IF o.signal_type = "BUY"
                  THEN /\ o.base_price = df[j].ask
                       /\ o.execution_price >= df[j].ask
                  ELSE /\ o.base_price = df[j].bid
                       /\ o.execution_price <= df[j].bid
               /\ o.execution_price = o.base_price + o.slippage
               /\ o.total_value = o.execution_price * o.filled_shares

\* A Sell was filled below the bid after a Buy had been filled above the
\* ask.
C25_Witness ==
    /\ order_result # None
    /\ order_result[1].signal_type = "SELL"
    /\ order_result[1].filled_shares >= 1
    /\ order_result[1].execution_price < order_result[1].base_price
    /\ \E k \in 1..Len(trades) :
          /\ trades[k].signal_type = "BUY"
          /\ trades[k].filled_shares >= 1

\* C26: at the end of a run with a positive initial capital every running
\* peak of the equity curve is positive and every value of the drawdown
\* series (equity - peak) / peak is <= 0; the reported maximum drawdown is
\* a value of the series and no value of the series is below it.
C26_DrawdownNonPositive ==
    (pc = "done" /\ config.initial_capital > 0) =>
        LET n == Len(equity_curve)
            m == max_drawdown(equity_curve, n)
        IN  /\ \A k \in 1..n :
                  /\ drawdown(equity_curve, k).den > 0
                  /\ drawdown(equity_curve, k).num <= 0
                  /\ ~RatioLess(drawdown(equity_curve, k).num,
                                drawdown(equity_curve, k).den, m.num, m.den)
            /\ \E k \in 1..n : drawdown(equity_curve, k) = m

\* A finished run whose equity rose above the initial capital and fell
\* again: the curve has a peak above its start and a drawdown below 0 that
\* is not at the last point.
C26_Witness ==
    /\ pc = "done"
    /\ Len(equity_curve) >= 3
    /\ cummax(equity_curve, Len(equity_curve)) > equity_curve[1].equity
    /\ max_drawdown(equity_curve, Len(equity_curve)).num < 0
    /\ drawdown(equity_curve, Len(equity_curve))
          # max_drawdown(equity_curve, Len(equity_curve))

\* C27 (trade statistics): at the end of a run the win rate and the profit
\* factor are 0 when the log has no closing trade, and the profit factor is
\* 0 when no closing trade lost.
C27_RatiosDefaultToZero ==
    pc = "done" =>
        /\ closed_trades(trades) = {} =>
              /\ win_rate(trades) = FracZero
              /\ profit_factor(trades) = FracZero
        /\ losing_trades(trades) = {} => profit_factor(trades) = FracZero

\* C28 (capital fraction): a configuration with a negative capital
\* fraction is rejected when the components are built, so a run given one
\* simulates no order and leaves the ledger and the trade log untouched.
C28_InvalidConfigRejected ==
    (config # None /\ config.capital_pct.num < 0) =>
        /\ order_result = None
        /\ trades = << >>
        /\ positions_history = << >>
        /\ cash = config.initial_capital
        /\ shares = 0

\* C29: in the mean-reversion generator the entries of a session are
\* counted and capped.  The counter never exceeds max_positions_per_day; a
\* step that takes the generator from Flat into a position adds one to it,
\* no other step of the session changes it, and the start of a session
\* sets it to 0.
C29_EntriesPerSession ==
    /\ [](strategy_type = "mean_reversion" =>
             /\ strategy.positions_today >= 0
             /\ strategy.positions_today <= max_positions_per_day)
    /\ [][strategy_type = "mean_reversion" =>
             IF pc = "next_day" /\ pc' # "loop"
             THEN strategy'.positions_today = 0
             ELSE IF ~strategy.in_position /\ strategy'.in_position
             THEN strategy'.positions_today = strategy.positions_today + 1
             ELSE strategy'.positions_today = strategy.positions_today]_vars

\* The cap binds: the generator is Flat in mid-session with the counter at
\* max_positions_per_day, and the next bar can be one on which it would
\* enter if the counter were lower, and on which it holds instead.
C29_Witness ==
    /\ strategy_type = "mean_reversion"
    /\ pc = "bars"
    /\ ~strategy.in_position
    /\ strategy.positions_today = max_positions_per_day
    /\ \E bar \in BarInputs :
          /\ MeanReversionBar([strategy EXCEPT !.positions_today = 0], bar,
                              Timestamp(day_no, day_slot + day_pos),
                              Append(CloseColumn, bar.Close)).signal # 0
          /\ BarStep(bar).signal = 0

\* The minute of the day of a timestamp lies in a window the generator
\* excludes: 13:30-14:00 and 20:30-20:59 for mean reversion, 13:30-13:44
\* and 20:45-20:59 for the momentum breakout.
InExcludedWindow(ts) ==
    LET m == ts % MinutesPerDay
    IN  IF strategy_type = "mean_reversion"
        THEN (m >= 13 * 60 + 30 /\ m <= 14 * 60)
             \/ (m >= 20 * 60 + 30 /\ m <= 20 * 60 + 59)
        ELSE (m >= 13 * 60 + 30 /\ m <= 13 * 60 + 44)
             \/ (m >= 20 * 60 + 45 /\ m <= 20 * 60 + 59)

\* C30: in the mean-reversion and the momentum-breakout generator a step
\* that takes the generator from Flat into a position is the evaluation of
\* a bar whose timestamp is outside the excluded windows.
C30_NoEntryInExcludedWindow ==
    [][(/\ strategy_type \in {"mean_reversion", "momentum_breakout"}
        /\ ~strategy.in_position
        /\ strategy'.in_position)
       => /\ Len(df') = Len(df) + 1
          /\ ~InExcludedWindow(df'[Len(df')].ts)
          /\ Signal'[Len(df')] # 0]_vars

\* The generator is Flat and the next bar of the session lies in an
\* excluded window; it can be a bar on which the entry rule would fire at
\* an allowed minute of the same session, and the generator holds on it.
C30_Witness ==
    /\ strategy_type \in {"mean_reversion", "momentum_breakout"}
    /\ pc = "bars"
    /\ ~strategy.in_position
    /\ InExcludedWindow(Timestamp(day_no, day_slot + day_pos))
    /\ \E bar \in BarInputs :
          LET allowed == Timestamp(day_no, 4)
              closes == Append(CloseColumn, bar.Close)
          IN  /\ BarStep(bar).signal = 0
              /\ IF strategy_type = "mean_reversion"
                 THEN MeanReversionBar(strategy, bar, allowed, closes).signal
                         # 0
                 ELSE MomentumBar(strategy, bar, allowed, closes,
                                  volume_sum + bar.Volume, VolumeCount).signal
                         # 0

(***************************************************************************)
(* Fourth group of properties.                                             *)
(***************************************************************************)
\* Every indicator the running generator uses has its full window of bars
\* in a table of n bars (the bar being decided is the last of them).
FullWindows(n) ==
    IF strategy_type = "opening_momentum" THEN n >= volume_window
    ELSE IF strategy_type = "mean_reversion"
    THEN n >= period /\ n >= rsi_period
    ELSE n > lookback_period /\ n >= volume_window

\* C31: a step that takes a generator from Flat into a position decides a
\* bar for which every indicator of the generator (moving average,
\* standard deviation, RSI, momentum lookback, average volume) has its full
\* window of bars.
C31_NoEntryOnPartialWindow ==
    [][(~strategy.in_position /\ strategy'.in_position)
          => FullWindows(Len(df'))]_vars


\* The generator is in a position that it entered on a bar of the running
\* session, and the next bar goes through the per-bar loop and is not the
\* session's last one (which the block after the loop closes in any case).
EnteredThisSession ==
    /\ pc = "bars"
    /\ strategy.in_position
    /\ ~(strategy_type = "opening_momentum" /\ day_pos < opening_range_minutes)
    /\ day_pos + 1 < day_len
    /\ \E j \in (Len(df) - day_pos + 1)..Len(df) :
          /\ Signal[j] = 0 - ClosingSignal(strategy_type, strategy)
          /\ \A k \in (j + 1)..Len(df) : Signal[k] = 0

\* C33: while a position entered in the session is open, whatever the next
\* bar of the session is, if its indicators are defined and it breaches the
\* stop-loss (Low at or below entry * (1 - stop_loss_pct) for a long, High
\* at or above entry * (1 + stop_loss_pct) for a short) the per-bar step
\* writes the closing signal on that bar and leaves the generator Flat.
C33_StopLossNeverPassedOver ==
    EnteredThisSession =>
        \A bar \in BarInputs :
            (IndicatorsDefined(bar) /\ StopLossHolds(bar)) =>
                /\ BarStep(bar).signal = ClosingSignal(strategy_type, strategy)
                /\ ~BarStep(bar).st.in_position


\* The generator's position after the bar of row j, replayed from the Signal
\* column of a mean-reversion or momentum run: from Flat a non-zero Signal
\* is an entry (+1 long, -1 short), in a position it is the exit.
GeneratorPosition(j) ==
    LET RECURSIVE Go(_)
        Go(i) == IF i = 0 THEN 0
                 ELSE LET before == Go(i - 1)
                      IN  IF Signal[i] = 0 THEN before
                          ELSE IF before = 0 THEN Signal[i] ELSE 0
    IN  Go(j)

\* Row of the bar at a timestamp.
RowAt(ts) == CHOOSE j \in 1..Len(df) : df[j].ts = ts

\* C34: in a run with the mean-reversion or the momentum generator the
\* ledger follows the generator's long positions only: the -1 that opens a
\* generator short produces no Fill and the +1 that covers the short opens
\* no long position in the ledger, that is, every Buy in the trade log
\* that adds shares answers a long entry and every Sell that removes shares
\* answers the exit of a long.
C34_LedgerFollowsLongsOnly ==
    (pc \in {"loop", "done"} /\ strategy_type # "opening_momentum") =>
        \A k \in 1..Len(trades) :
            LET row == RowAt(trades[k].execution_time) - 1
            IN  trades[k].filled_shares > 0 =>
                    IF trades[k].signal_type = "BUY"
                    THEN GeneratorPosition(row) = 1
                    ELSE GeneratorPosition(row - 1) = 1

\* The non-zero signals of the session of date d, in table order.
SessionSignals(d) ==
    LET rows == SelectSeq([i \in 1..Len(df) |-> i],
                          LAMBDA i : DateOf(df[i].ts) = d /\ Signal[i] # 0)
    IN  [k \in 1..Len(rows) |-> Signal[rows[k]]]

\* C35: between sessions, the non-zero signals the opening-range generator
\* wrote in every finished session alternate Buy, Sell, starting with a Buy
\* and ending with a Sell: each Buy is followed by a Sell of its own session
\* before any other Buy and no Sell comes without an unmatched earlier Buy.
C35_BuySellAlternate ==
    (strategy_type = "opening_momentum" /\ pc = "next_day") =>
        \A d \in 1..day_no :
            LET s == SessionSignals(d)
            IN  /\ \A k \in 1..Len(s) : s[k] = IF k % 2 = 1 THEN 1 ELSE -1
                /\ Len(s) % 2 = 0


\* C36: in fixed_capital mode, with a capital fraction in [0, 1] and
\* non-negative commission settings (prices of the Bar Series are
\* positive), the ledger's cash is never negative, after any Fill of a run.
C36_CashNonNegative ==
    (/\ pc \in {"loop", "done"}
     /\ config.position_type = "fixed_capital"
     /\ config.capital_pct.num >= 0
     /\ config.capital_pct.num <= config.capital_pct.den
     /\ config.commission_pct.num >= 0
     /\ config.commission_fixed >= 0)
    => /\ cash >= 0
       /\ \A k \in 1..Len(positions_history) : positions_history[k].cash >= 0


\* C37: every Fill that reached the ledger and the trade log has at least
\* one filled share: no Trade Record and no positions_history entry stands
\* for a Fill of 0 shares.
C37_FillsHaveShares ==
    /\ \A k \in 1..Len(trades) : trades[k].filled_shares >= 1
    /\ Len(positions_history) = Len(trades)
    /\ order_result # None => order_result[1].filled_shares >= 1


\* C38: the execution timestamps of successive Trade Records are strictly
\* increasing, and while a signal is still to be processed every Fill
\* recorded so far was executed at or before that signal's decision
\* timestamp.
C38_FillsInTimeOrder ==
    pc \in {"loop", "done"} =>
        /\ \A k \in 1..(Len(trades) - 1) :
              trades[k].execution_time < trades[k + 1].execution_time
        /\ (pc = "loop" /\ next_signal <= Len(signal_times)) =>
              \A k \in 1..Len(trades) :
                  trades[k].execution_time
                      <= df[signal_times[next_signal]].ts

\* Two Fills have been recorded and a third signal waits whose decision
\* bar is the bar at which the second Fill was executed.
C38_Witness ==
    /\ pc = "loop"
    /\ Len(trades) >= 2
    /\ next_signal <= Len(signal_times)
    /\ trades[2].execution_time = df[signal_times[next_signal]].ts


\* C39: a step that applies a Fill with update_position changes the equity
\* valued at the Fill's execution price by exactly the commission:
\* cash + shares * execution_price after the step is the same sum before
\* it, less the commission, for a Buy and for a Sell.
C39_EquityDropsByCommission ==
    [][(pc = "loop" /\ Len(positions_history') = Len(positions_history) + 1)
         => LET t == trades'[Len(trades')]
            IN  cash' + shares' * t.execution_price
                  = cash + shares * t.execution_price - t.commission]_vars

\* A Buy and then a Sell have been applied, each with shares filled and a
\* commission charged.
C39_Witness ==
    /\ Len(trades) >= 2
    /\ trades[1].signal_type = "BUY"
    /\ trades[2].signal_type = "SELL"
    /\ trades[1].filled_shares > 0 /\ trades[1].commission > 0
    /\ trades[2].filled_shares > 0 /\ trades[2].commission > 0
    /\ Len(positions_history) = 2


\* C40: whenever calculate_signals can return (a session has ended, or no
\* session was processed at all) the generator is Flat: in_position false,
\* entry price 0, position type 0.  The only field that may differ from a
\* newly built generator is the daily entry counter, which the next call
\* resets before it reads it, so a second call on the same instance starts
\* from the state the first call started from.
C40_FlatOnReturn ==
    pc = "next_day" =>
        /\ ~strategy.in_position
        /\ strategy.entry_price = 0
        /\ strategy.position_type = 0
        /\ [strategy EXCEPT !.positions_today = 0] = Flat
        /\ strategy_type # "mean_reversion" => strategy = Flat

\* A session has ended whose last bar carries an entry signal: the block
\* after the loop found the generator in position and a Signal it does not
\* overwrite.
C40_Witness ==
    /\ pc = "next_day"
    /\ day_no >= 1
    /\ Len(df) >= 1
    /\ Signal[Len(df)] # 0
    /\ GeneratorPosition(Len(df)) # 0

=============================================================================
